---- MODULE Spec2Model ----
(***************************************************************************)
(* Reservation engine of the poputka ride-sharing bot.                     *)
(*                                                                         *)
(* The model follows the source: database.py (Trip, Booking), the booking  *)
(* callback of booking_module.py, the expiry job of booking_module.py and  *)
(* the booking / trip callbacks of handlers.py.                            *)
(*                                                                         *)
(* Scheduling (main.py): the Application is built without                  *)
(* concurrent_updates, so updates are handled one at a time; the expiry    *)
(* job is run by the job queue as a task of its own on the same event      *)
(* loop.  A coroutine therefore runs atomically from one await that        *)
(* suspends (a Bot API call) to the next, and the only interleavings are   *)
(* between the expiry job and one update handler at such awaits.           *)
(*                                                                         *)
(* Storage (database.py): every `with Session()` is a SQLAlchemy session   *)
(* with its own identity map over one SQLite file.  An attribute           *)
(* assignment is written at flush/commit as the absolute value held in     *)
(* memory (UPDATE ... SET seats_available = <value>), loaded objects are   *)
(* not re-read before commit, and a session that has flushed holds the     *)
(* SQLite write lock until it commits.                                     *)
(*                                                                         *)
(* Callback data and message text are supplied by the client, so every    *)
(* handler is modelled for every actor and every id; the guards are those  *)
(* of the code.                                                            *)
(***************************************************************************)
EXTENDS Integers, Sequences, FiniteSets, TLC

\* ---------------------------------------------------------------- bounds
NumTrips == 1          \* trips published before the run starts
NumUsers == 3          \* user 1 drives every trip, users 2.. are passengers
MaxBookings == 2       \* rows of the bookings table
MaxTime == 3           \* last instant of the clock
TripSeats == 2         \* seats each trip is created with
MaxExtraSeats == 1     \* the model stops counting seats this far above capacity
\* config.py: PENDING_BOOKING_TTL_MINUTES comes from the environment
\* (default 15); the model runs with a short configured TTL.
PENDING_BOOKING_TTL_MINUTES == 1

TripIds == 1..NumTrips
Users == 1..NumUsers
BookingIds == 1..MaxBookings
\* ids a client may put into callback data: one more than exists
ReqTripIds == 1..(NumTrips + 1)
ReqSeats == 0..(TripSeats + 1)

\* ------------------------------------------------------ database.py enum
PENDING == "pending"
CONFIRMED == "confirmed"
CANCELLED == "cancelled"
REJECTED == "rejected"
EXPIRED == "expired"
BookingStatus == {PENDING, CONFIRMED, CANCELLED, REJECTED, EXPIRED}
ActiveStatuses == {PENDING, CONFIRMED}
TerminalStatuses == {CANCELLED, REJECTED, EXPIRED}

NoTime == -1           \* a booking_time that is NULL or cannot be parsed
NotLoaded == -1        \* a trip the sweep's session has not loaded
NoBooking == 0         \* no 'cancelling_booking_id' in user_data

VARIABLES
    trips,         \* table trips: id -> row
    capacity,      \* ghost: seats each trip was created with
    bookings,      \* table bookings: sequence of rows, id = index
    now,           \* the clock (datetime.now() / datetime.utcnow())
    user_data,     \* context.user_data[u]['cancelling_booking_id']
    sweep,         \* the running expire_pending_bookings_job, if any
    cascade,       \* the running notify_passengers_trip_cancelled, if any
    outbox,        \* notifications handed to the bot by the last step
    update_queue,  \* booking requests received and not yet handled
    bot_users,     \* table bot_users: is_banned and banned_until per user
    editing        \* context.user_data[u]: editing_trip_id, edit_suggestions

vars == <<trips, capacity, bookings, now, user_data, sweep, cascade, outbox,
          update_queue, bot_users, editing>>
db == <<trips, bookings>>

\* ---------------------------------------------------------------- helpers
Note(kind, to, b) == [kind |-> kind, to |-> to, booking |-> b]

SetStatus(bs, b, st) == [bs EXCEPT ![b].status = st]

AddSeats(ts, t, n) ==
    [ts EXCEPT ![t].seats_available = ts[t].seats_available + n]

\* a handler's session can commit unless the sweep's session has flushed
\* and still holds the SQLite write lock (the commit then raises
\* OperationalError: database is locked)
DbLocked == sweep.flushed

IdleSweep ==
    [pc |-> "idle", queue |-> <<>>, cur |-> NoBooking, cutoff |-> 0,
     cache |-> [t \in DOMAIN trips |-> NotLoaded], expired |-> {},
     flushed |-> FALSE]

IdleCascade == [pc |-> "idle", queue |-> <<>>]

\* user_registry.BotUser: the ban columns of a user nobody has banned
NotBanned == [is_banned |-> FALSE, banned_until |-> NoTime]

\* a user_data without 'editing_trip_id' and without 'edit_suggestions'
NoTrip == 0
NotEditing == [editing_trip_id |-> NoTrip, edit_suggestions |-> {}]

\* booking_module._as_utc_datetime: None for NULL / unparseable text
AsUtcDatetime(value) == IF value = NoTime THEN NoTime ELSE value

\* handlers.trip_end_dt
trip_end_dt(trip) ==
    IF trip.end_date # NoTime THEN trip.end_date ELSE trip.date

ActiveSum(bs, t) ==
    LET RECURSIVE Sum(_)
        Sum(i) == IF i = 0 THEN 0
                  ELSE Sum(i - 1) +
                       (IF bs[i].trip_id = t /\ bs[i].status \in ActiveStatuses
                        THEN bs[i].seats_booked ELSE 0)
    IN Sum(Len(bs))

\* ------------------------------------------------------------------- Init
InitTrip(t) ==
    [departure_point |-> "A", destination_point |-> "C",
     driver_id |-> 1, seats_available |-> TripSeats, is_active |-> TRUE,
     date |-> MaxTime - 1, end_date |-> IF t = 1 THEN MaxTime - 1 ELSE MaxTime]

Init ==
    /\ trips = [t \in TripIds |-> InitTrip(t)]
    /\ capacity = [t \in TripIds |-> TripSeats]
    /\ bookings = <<>>
    /\ now = 0
    /\ user_data = [u \in Users |-> NoBooking]
    /\ sweep = IdleSweep
    /\ cascade = IdleCascade
    /\ outbox = {}
    /\ update_queue = {}
    /\ bot_users = [u \in Users |-> NotBanned]
    /\ editing = [u \in Users |-> NotEditing]

\* ------------------------------------------------------------------ clock
Tick ==
    /\ now < MaxTime
    /\ now' = now + 1
    /\ UNCHANGED <<trips, capacity, bookings, user_data, sweep, cascade,
                   outbox>>

\* ------------------------------------- booking_module.handle_callback
\* variant of BookingCheck: the checks without the duplicate rule of
\* lines 231-238
BookingCheckNoDuplicate(u, t, n) ==
    IF t \notin DOMAIN trips THEN "unavailable"
    ELSE IF ~trips[t].is_active \/ trips[t].seats_available <= 0
         THEN "unavailable"
    ELSE IF trips[t].driver_id = u THEN "own_trip"
    ELSE IF trips[t].date < now THEN "past"
    ELSE IF n < 1 \/ n > trips[t].seats_available THEN "bad_qty"
    ELSE "ok"

\* variant of BookingCheck: the checks without the past-trip rule of
\* lines 216-223
BookingCheckNoPast(u, t, n) ==
    IF t \notin DOMAIN trips THEN "unavailable"
    ELSE IF ~trips[t].is_active \/ trips[t].seats_available <= 0
         THEN "unavailable"
    ELSE IF trips[t].driver_id = u THEN "own_trip"
    ELSE IF n < 1 \/ n > trips[t].seats_available THEN "bad_qty"
    ELSE IF \E i \in 1..Len(bookings) :
               /\ bookings[i].trip_id = t
               /\ bookings[i].passenger_id = u
               /\ bookings[i].status \in ActiveStatuses
         THEN "duplicate"
    ELSE "ok"

\* variant of BookingCheck: the checks without the own-trip rule of
\* lines 211-214
BookingCheckNoOwnTrip(u, t, n) ==
    IF t \notin DOMAIN trips THEN "unavailable"
    ELSE IF ~trips[t].is_active \/ trips[t].seats_available <= 0
         THEN "unavailable"
    ELSE IF trips[t].date < now THEN "past"
    ELSE IF n < 1 \/ n > trips[t].seats_available THEN "bad_qty"
    ELSE IF \E i \in 1..Len(bookings) :
               /\ bookings[i].trip_id = t
               /\ bookings[i].passenger_id = u
               /\ bookings[i].status \in ActiveStatuses
         THEN "duplicate"
    ELSE "ok"

\* the checks of lines 207-238, in the code's order
BookingCheck(u, t, n) ==
    IF t \notin DOMAIN trips THEN "unavailable"
    ELSE IF ~trips[t].is_active \/ trips[t].seats_available <= 0
         THEN "unavailable"
    ELSE IF trips[t].driver_id = u THEN "own_trip"
    ELSE IF trips[t].date < now THEN "past"
    ELSE IF n < 1 \/ n > trips[t].seats_available THEN "bad_qty"
    ELSE IF \E i \in 1..Len(bookings) :
               /\ bookings[i].trip_id = t
               /\ bookings[i].passenger_id = u
               /\ bookings[i].status \in ActiveStatuses
         THEN "duplicate"
    ELSE "ok"

\* variant of NewBooking: the row always holds one seat
NewBookingOneSeat(u, t, n) ==
    [trip_id |-> t, passenger_id |-> u, seats_booked |-> 1,
     booking_time |-> now, status |-> PENDING]

NewBooking(u, t, n) ==
    [trip_id |-> t, passenger_id |-> u, seats_booked |-> n,
     booking_time |-> now, status |-> PENDING]

\* variant of CreateBooking: the booking is stored, the seats are not taken
CreateBookingNoDecrement(u, t, n) ==
    /\ cascade.pc = "idle"
    /\ LET chk == BookingCheck(u, t, n) IN
       IF chk # "ok" \/ DbLocked
       THEN /\ outbox' = {}
            /\ UNCHANGED <<trips, bookings>>
       ELSE /\ bookings' = Append(bookings, NewBooking(u, t, n))
            /\ outbox' = {Note("new_booking", trips[t].driver_id,
                               Len(bookings) + 1)}
            /\ UNCHANGED trips
    /\ UNCHANGED <<capacity, now, user_data, sweep, cascade>>

CreateBooking(u, t, n) ==
    /\ cascade.pc = "idle"
    /\ LET chk == BookingCheck(u, t, n) IN
       IF chk # "ok"
       THEN /\ outbox' = {}
            /\ UNCHANGED <<trips, bookings>>
       ELSE IF DbLocked
       THEN /\ outbox' = {}
            /\ UNCHANGED <<trips, bookings>>
       ELSE /\ bookings' = Append(bookings, NewBooking(u, t, n))
            /\ trips' = AddSeats(trips, t, 0 - n)
            /\ outbox' = {Note("new_booking", trips[t].driver_id,
                               Len(bookings) + 1)}
    /\ UNCHANGED <<capacity, now, user_data, sweep, cascade>>

\* ------------------------------ handlers.button_callback: confirm_booking_
\* variant of IsExpiredAtConfirm: no TTL re-check
IsExpiredAtConfirmNever(bk) == FALSE

\* lines 3638-3656: the TTL re-check of the confirm path
IsExpiredAtConfirm(bk) ==
    LET bt == bk.booking_time IN
    bt # NoTime /\ bt < now - PENDING_BOOKING_TTL_MINUTES

\* variant of ConfirmBooking: without the test of line 3629 that the
\* booking is PENDING
ConfirmBookingAnyStatus(u, b) ==
    /\ cascade.pc = "idle"
    /\ IF b \notin DOMAIN bookings
       THEN outbox' = {} /\ UNCHANGED db
       ELSE IF bookings[b].status = EXPIRED
       THEN outbox' = {} /\ UNCHANGED db
       ELSE IF DbLocked
       THEN outbox' = {} /\ UNCHANGED db
       ELSE IF IsExpiredAtConfirm(bookings[b])
       THEN /\ trips' = AddSeats(trips, bookings[b].trip_id,
                                 bookings[b].seats_booked)
            /\ bookings' = SetStatus(bookings, b, EXPIRED)
            /\ outbox' = {Note("expired", bookings[b].passenger_id, b)}
       ELSE /\ bookings' = SetStatus(bookings, b, CONFIRMED)
            /\ outbox' = {Note("confirmed", bookings[b].passenger_id, b)}
            /\ UNCHANGED trips
    /\ UNCHANGED <<capacity, now, user_data, sweep, cascade>>

ConfirmBooking(u, b) ==
    /\ cascade.pc = "idle"
    /\ IF b \notin DOMAIN bookings
       THEN outbox' = {} /\ UNCHANGED db
       ELSE IF bookings[b].status = EXPIRED
       THEN outbox' = {} /\ UNCHANGED db
       ELSE IF bookings[b].status # PENDING
       THEN outbox' = {} /\ UNCHANGED db
       ELSE IF DbLocked
       THEN outbox' = {} /\ UNCHANGED db
       ELSE IF IsExpiredAtConfirm(bookings[b])
       THEN /\ trips' = AddSeats(trips, bookings[b].trip_id,
                                 bookings[b].seats_booked)
            /\ bookings' = SetStatus(bookings, b, EXPIRED)
            /\ outbox' = {Note("expired", bookings[b].passenger_id, b)}
       ELSE /\ bookings' = SetStatus(bookings, b, CONFIRMED)
            /\ outbox' = {Note("confirmed", bookings[b].passenger_id, b)}
            /\ UNCHANGED trips
    /\ UNCHANGED <<capacity, now, user_data, sweep, cascade>>

\* ------------------------------- handlers.button_callback: reject_booking_
\* variant of RejectBooking: the status is written, the seats stay taken
RejectBookingNoRelease(u, b) ==
    /\ cascade.pc = "idle"
    /\ IF b \in DOMAIN bookings /\ bookings[b].status = PENDING /\ ~DbLocked
       THEN /\ bookings' = SetStatus(bookings, b, REJECTED)
            /\ outbox' = {Note("rejected", bookings[b].passenger_id, b)}
            /\ UNCHANGED trips
       ELSE outbox' = {} /\ UNCHANGED db
    /\ UNCHANGED <<capacity, now, user_data, sweep, cascade>>

RejectBooking(u, b) ==
    /\ cascade.pc = "idle"
    /\ IF b \in DOMAIN bookings /\ bookings[b].status = PENDING
       THEN IF DbLocked
            THEN outbox' = {} /\ UNCHANGED db
            ELSE /\ trips' = AddSeats(trips, bookings[b].trip_id,
                                      bookings[b].seats_booked)
                 /\ bookings' = SetStatus(bookings, b, REJECTED)
                 /\ outbox' = {Note("rejected", bookings[b].passenger_id, b)}
       ELSE outbox' = {} /\ UNCHANGED db
    /\ UNCHANGED <<capacity, now, user_data, sweep, cascade>>

\* ------------------------------- handlers.button_callback: cancel_booking_
CancelBookingAsk(u, b) ==
    /\ cascade.pc = "idle"
    /\ outbox' = {}
    /\ IF b \notin DOMAIN bookings
       THEN UNCHANGED user_data
       ELSE IF bookings[b].passenger_id # u
       THEN UNCHANGED user_data
       ELSE IF trip_end_dt(trips[bookings[b].trip_id]) < now
       THEN UNCHANGED user_data
       ELSE /\ user_data' = [user_data EXCEPT ![u] = b]
    /\ UNCHANGED <<trips, capacity, bookings, now, sweep, cascade>>

\* keep_booking_ (line 3855) and every menu command (lines 2002-2005)
\* drop the pending cancellation dialogue
ClearDialog(u) ==
    /\ cascade.pc = "idle"
    /\ user_data[u] # NoBooking
    /\ user_data' = [user_data EXCEPT ![u] = NoBooking]
    /\ outbox' = {}
    /\ UNCHANGED <<trips, capacity, bookings, now, sweep, cascade>>

\* ------------------------------- handlers.button_callback: confirm_cancel_
ConfirmCancel(u, b) ==
    /\ cascade.pc = "idle"
    /\ IF b \notin DOMAIN bookings
       THEN outbox' = {} /\ UNCHANGED db
       ELSE IF bookings[b].status \in TerminalStatuses
       THEN outbox' = {} /\ UNCHANGED db
       ELSE IF bookings[b].passenger_id # u
       THEN outbox' = {} /\ UNCHANGED db
       ELSE IF DbLocked
       THEN outbox' = {} /\ UNCHANGED db
       ELSE /\ trips' = AddSeats(trips, bookings[b].trip_id,
                                 bookings[b].seats_booked)
            /\ bookings' = SetStatus(bookings, b, CANCELLED)
            /\ outbox' = {Note("booking_cancelled",
                               trips[bookings[b].trip_id].driver_id, b)}
    /\ UNCHANGED <<capacity, now, user_data, sweep, cascade>>

\* ------------------ handlers.handle_message: reply to the cancel dialogue
TextWords == {"yes", "no", "other"}

TextReply(u, word) ==
    /\ cascade.pc = "idle"
    /\ user_data[u] # NoBooking
    /\ LET b == user_data[u] IN
       IF word = "other"
       THEN outbox' = {} /\ UNCHANGED <<db, user_data>>
       ELSE /\ user_data' = [user_data EXCEPT ![u] = NoBooking]
            /\ IF word = "no"
               THEN outbox' = {} /\ UNCHANGED db
               ELSE IF b \notin DOMAIN bookings \/ bookings[b].passenger_id # u
               THEN outbox' = {} /\ UNCHANGED db
               ELSE IF DbLocked
               THEN outbox' = {} /\ UNCHANGED db
               ELSE /\ trips' = AddSeats(trips, bookings[b].trip_id,
                                         bookings[b].seats_booked)
                    /\ bookings' = SetStatus(bookings, b, CANCELLED)
                    /\ outbox' = {Note("booking_cancelled",
                                       trips[bookings[b].trip_id].driver_id, b)}
    /\ UNCHANGED <<capacity, now, sweep, cascade>>

\* ------------------------------------ handlers.button_callback: exit_trip_
\* variant of ExitTrip: without the branches of lines 2297-2307 and
\* 2333-2335 for a trip that is inactive or has departed
ExitTripAlwaysRefund(u, b) ==
    /\ cascade.pc = "idle"
    /\ IF b \notin DOMAIN bookings
       THEN outbox' = {} /\ UNCHANGED db
       ELSE IF bookings[b].passenger_id # u
       THEN outbox' = {} /\ UNCHANGED db
       ELSE IF DbLocked
       THEN outbox' = {} /\ UNCHANGED db
       ELSE LET t == bookings[b].trip_id IN
            /\ trips' = AddSeats(trips, t, bookings[b].seats_booked)
            /\ bookings' = SetStatus(bookings, b, CANCELLED)
            /\ outbox' = {Note("booking_cancelled", trips[t].driver_id, b)}
    /\ UNCHANGED <<capacity, now, user_data, sweep, cascade>>

ExitTrip(u, b) ==
    /\ cascade.pc = "idle"
    /\ IF b \notin DOMAIN bookings
       THEN outbox' = {} /\ UNCHANGED db
       ELSE IF bookings[b].passenger_id # u
       THEN outbox' = {} /\ UNCHANGED db
       ELSE IF DbLocked
       THEN outbox' = {} /\ UNCHANGED db
       ELSE LET t == bookings[b].trip_id IN
            IF t \notin DOMAIN trips \/ ~trips[t].is_active
            THEN /\ bookings' = SetStatus(bookings, b, CANCELLED)
                 /\ outbox' = {} /\ UNCHANGED trips
            ELSE IF trips[t].date > now
            THEN /\ trips' = AddSeats(trips, t, bookings[b].seats_booked)
                 /\ bookings' = SetStatus(bookings, b, CANCELLED)
                 /\ outbox' = {Note("booking_cancelled", trips[t].driver_id, b)}
            ELSE /\ bookings' = SetStatus(bookings, b, CANCELLED)
                 /\ outbox' = {} /\ UNCHANGED trips
    /\ UNCHANGED <<capacity, now, user_data, sweep, cascade>>

\* ------------------------ handlers.button_callback: confirm_driver_cancel_
\* variant of ConfirmDriverCancel: without the terminal-status guard of
\* lines 4665-4671
ConfirmDriverCancelAnyStatus(u, b) ==
    /\ cascade.pc = "idle"
    /\ IF b \notin DOMAIN bookings
       THEN outbox' = {} /\ UNCHANGED db
       ELSE IF trips[bookings[b].trip_id].driver_id # u \/ DbLocked
       THEN outbox' = {} /\ UNCHANGED db
       ELSE /\ trips' = AddSeats(trips, bookings[b].trip_id,
                                 bookings[b].seats_booked)
            /\ bookings' = SetStatus(bookings, b, CANCELLED)
            /\ outbox' = {Note("rejected", bookings[b].passenger_id, b)}
    /\ UNCHANGED <<capacity, now, user_data, sweep, cascade>>

ConfirmDriverCancel(u, b) ==
    /\ cascade.pc = "idle"
    /\ IF b \notin DOMAIN bookings
       THEN outbox' = {} /\ UNCHANGED db
       ELSE IF bookings[b].status \in TerminalStatuses
       THEN outbox' = {} /\ UNCHANGED db
       ELSE IF trips[bookings[b].trip_id].driver_id # u
       THEN outbox' = {} /\ UNCHANGED db
       ELSE IF DbLocked
       THEN outbox' = {} /\ UNCHANGED db
       ELSE /\ trips' = AddSeats(trips, bookings[b].trip_id,
                                 bookings[b].seats_booked)
            /\ bookings' = SetStatus(bookings, b, CANCELLED)
            /\ outbox' = {Note("rejected", bookings[b].passenger_id, b)}
    /\ UNCHANGED <<capacity, now, user_data, sweep, cascade>>

\* ------------------------- handlers.cancel_trip (confirm_trip_cancel_)
\* the query of notify_passengers_trip_cancelled, lines 4977-4980
ActiveBookingsOf(t) ==
    SelectSeq([i \in 1..Len(bookings) |-> i],
              LAMBDA i : /\ bookings[i].trip_id = t
                         /\ bookings[i].status \in ActiveStatuses)

\* variant of CancelTrip: without the is_active guard of line 5704
CancelTripNoActiveCheck(u, t) ==
    /\ cascade.pc = "idle"
    /\ IF t \notin DOMAIN trips
       THEN /\ outbox' = {}
            /\ UNCHANGED <<trips, cascade>>
       ELSE IF trips[t].driver_id # u
       THEN /\ outbox' = {}
            /\ UNCHANGED <<trips, cascade>>
       ELSE IF DbLocked
       THEN /\ outbox' = {}
            /\ UNCHANGED <<trips, cascade>>
       ELSE /\ trips' = [trips EXCEPT ![t].is_active = FALSE]
            /\ LET q == ActiveBookingsOf(t) IN
               IF q = <<>>
               THEN /\ outbox' = {}
                    /\ UNCHANGED cascade
               ELSE /\ cascade' = [pc |-> "notify", queue |-> q]
                    /\ outbox' = {Note("trip_cancelled",
                                       bookings[Head(q)].passenger_id, Head(q))}
    /\ UNCHANGED <<capacity, bookings, now, user_data, sweep>>

CancelTrip(u, t) ==
    /\ cascade.pc = "idle"
    /\ IF t \notin DOMAIN trips \/ ~trips[t].is_active
       THEN /\ outbox' = {}
            /\ UNCHANGED <<trips, cascade>>
       ELSE IF trips[t].driver_id # u
       THEN /\ outbox' = {}
            /\ UNCHANGED <<trips, cascade>>
       ELSE IF DbLocked
       THEN /\ outbox' = {}
            /\ UNCHANGED <<trips, cascade>>
       ELSE /\ trips' = [trips EXCEPT ![t].is_active = FALSE]
            /\ LET q == ActiveBookingsOf(t) IN
               IF q = <<>>
               THEN /\ outbox' = {}
                    /\ UNCHANGED cascade
               ELSE /\ cascade' = [pc |-> "notify", queue |-> q]
                    /\ outbox' = {Note("trip_cancelled",
                                       bookings[Head(q)].passenger_id, Head(q))}
    /\ UNCHANGED <<capacity, bookings, now, user_data, sweep>>

\* one turn of the loop of notify_passengers_trip_cancelled, lines
\* 4996-5012: the send returns (sent) or raises, then the status is
\* written in a session of its own
CascadeStep(sent) ==
    /\ cascade.pc = "notify"
    /\ LET b == Head(cascade.queue)
           rest == Tail(cascade.queue)
       IN /\ IF sent /\ ~DbLocked
             THEN bookings' = SetStatus(bookings, b, CANCELLED)
             ELSE UNCHANGED bookings
          /\ IF rest = <<>>
             THEN /\ cascade' = IdleCascade
                  /\ outbox' = {}
             ELSE /\ cascade' = [cascade EXCEPT !.queue = rest]
                  /\ outbox' = {Note("trip_cancelled",
                                     bookings[Head(rest)].passenger_id,
                                     Head(rest))}
    /\ UNCHANGED <<trips, capacity, now, user_data, sweep>>

\* ------------------------- booking_module.expire_pending_bookings_job
\* the query of lines 85-89
PendingBookings ==
    SelectSeq([i \in 1..Len(bookings) |-> i],
              LAMBDA i : bookings[i].status = PENDING)

\* variant of SweepExpires: the job finds no booking past its TTL
SweepExpiresNever(bk, cutoff) == FALSE

\* lines 92-105 for a booking the session loaded as PENDING
SweepExpires(bk, cutoff) ==
    LET bt == AsUtcDatetime(bk.booking_time) IN
    ~(bt = NoTime) /\ ~(bt >= cutoff)

\* lines 107-114: b.trip is taken from the identity map or loaded (a load
\* autoflushes what the session has changed); the seats and the status are
\* changed in the session only
SweepTouch(sw, b) ==
    LET t == bookings[b].trip_id
        load == sw.cache[t] = NotLoaded
        seats == IF load THEN trips[t].seats_available ELSE sw.cache[t]
    IN [sw EXCEPT !.pc = "await",
                  !.cur = b,
                  !.cache[t] = seats + bookings[b].seats_booked,
                  !.expired = sw.expired \cup {b},
                  !.flushed = sw.flushed \/ (load /\ sw.expired # {})]

\* the for loop from the head of sw.queue up to the next await (line 120)
\* or to the end of the list
RECURSIVE SweepLoop(_)
SweepLoop(sw) ==
    IF sw.queue = <<>> THEN [sw EXCEPT !.pc = "commit"]
    ELSE LET b == Head(sw.queue)
             next == [sw EXCEPT !.queue = Tail(sw.queue)]
         IN IF SweepExpires(bookings[b], sw.cutoff)
            THEN SweepTouch(next, b)
            ELSE SweepLoop(next)

\* lines 124-125: session.commit() writes what the session holds
SweepCommitBookings(sw) ==
    [i \in 1..Len(bookings) |->
        IF i \in sw.expired THEN [bookings[i] EXCEPT !.status = EXPIRED]
        ELSE bookings[i]]

SweepCommitTrips(sw) ==
    [t \in DOMAIN trips |->
        IF sw.cache[t] # NotLoaded
        THEN [trips[t] EXCEPT !.seats_available = sw.cache[t]]
        ELSE trips[t]]

SweepAdvance(sw) ==
    LET nxt == SweepLoop(sw) IN
    IF nxt.pc = "await"
    THEN /\ sweep' = nxt
         /\ outbox' = {Note("expired", bookings[nxt.cur].passenger_id, nxt.cur)}
         /\ UNCHANGED db
    ELSE /\ sweep' = IdleSweep
         /\ outbox' = {}
         /\ bookings' = SweepCommitBookings(nxt)
         /\ trips' = SweepCommitTrips(nxt)

SweepStart ==
    /\ sweep.pc = "idle"
    /\ SweepAdvance([IdleSweep EXCEPT
                        !.queue = PendingBookings,
                        !.cutoff = now - PENDING_BOOKING_TTL_MINUTES])
    /\ UNCHANGED <<capacity, now, user_data, cascade>>

\* the awaited notification returned or raised (both are swallowed)
SweepResume ==
    /\ sweep.pc = "await"
    /\ SweepAdvance(sweep)
    /\ UNCHANGED <<capacity, now, user_data, cascade>>

\* ------------------------------------------------------------------- Spec
\* bounds of the model: the bookings table holds MaxBookings rows and
\* seats_available is followed up to MaxExtraSeats above the capacity
Bounded ==
    /\ Len(bookings) <= MaxBookings
    /\ \A t \in DOMAIN trips :
          trips[t].seats_available <= capacity[t] + MaxExtraSeats

\* what every step of the bot leaves alone and keeps within the bounds
Frame == UNCHANGED <<update_queue, bot_users, editing>> /\ Bounded'

Next ==
    \/ Tick /\ Frame
    \/ (\E u \in Users, t \in ReqTripIds, n \in ReqSeats :
            CreateBooking(u, t, n)) /\ Frame
    \/ (\E u \in Users, b \in BookingIds : ConfirmBooking(u, b)) /\ Frame
    \/ (\E u \in Users, b \in BookingIds : RejectBooking(u, b)) /\ Frame
    \/ (\E u \in Users, b \in BookingIds : CancelBookingAsk(u, b)) /\ Frame
    \/ (\E u \in Users : ClearDialog(u)) /\ Frame
    \/ (\E u \in Users, b \in BookingIds : ConfirmCancel(u, b)) /\ Frame
    \/ (\E u \in Users, w \in TextWords : TextReply(u, w)) /\ Frame
    \/ (\E u \in Users, b \in BookingIds : ExitTrip(u, b)) /\ Frame
    \/ (\E u \in Users, b \in BookingIds : ConfirmDriverCancel(u, b)) /\ Frame
    \/ (\E u \in Users, t \in ReqTripIds : CancelTrip(u, t)) /\ Frame
    \/ (\E sent \in BOOLEAN : CascadeStep(sent)) /\ Frame
    \/ SweepStart /\ Frame
    \/ SweepResume /\ Frame

Spec == Init /\ [][Next]_vars

\* ------------------------------------------------- the last-seat race
\* K + 1 passengers each ask for one seat of a trip that has exactly K
\* seats left (held = 1: one more seat of the trip is already confirmed
\* for somebody else); the requests are handled in any order
RaceSeats == 1..(MaxBookings + 1)
RaceUsers(K) == 2..(K + 2)
RaceTrip == 1

HeldBooking(K) ==
    [trip_id |-> RaceTrip, passenger_id |-> K + 3, seats_booked |-> 1,
     booking_time |-> 0, status |-> CONFIRMED]

RaceInit ==
    \E K \in RaceSeats, held \in 0..1 :
        /\ trips = [t \in {RaceTrip} |->
                       [InitTrip(t) EXCEPT !.seats_available = K]]
        /\ capacity = [t \in {RaceTrip} |-> K + held]
        /\ bookings = IF held = 1 THEN <<HeldBooking(K)>> ELSE <<>>
        /\ now = 0
        /\ user_data = [u \in Users |-> NoBooking]
        /\ sweep = IdleSweep
        /\ cascade = IdleCascade
        /\ outbox = {}
        /\ update_queue = {[from_user |-> u, trip_id |-> RaceTrip, seats |-> 1] :
                              u \in RaceUsers(K)}
        /\ bot_users = [u \in Users |-> NotBanned]
        /\ editing = [u \in Users |-> NotEditing]

RaceNext ==
    \E r \in update_queue :
        /\ CreateBooking(r.from_user, r.trip_id, r.seats)
        /\ update_queue' = update_queue \ {r}
        /\ UNCHANGED <<bot_users, editing>>

SpecRace == RaceInit /\ [][RaceNext]_vars

\* ------------------------------------------- the per-request maximum
\* handlers.py offers the seat counts 1..min(5, seats_available) when a
\* passenger books (line 3273) and 1..5 when a driver publishes a trip
\* (lines 451, 1041)
MaxSeatsPerRequest == 5
QtySeats == 0..(MaxSeatsPerRequest + 2)

\* a trip published with the largest seat count, and the handlers a
\* passenger and the driver reach from the booking cards
QtyInit ==
    /\ trips = [t \in TripIds |->
                   [InitTrip(t) EXCEPT !.seats_available = MaxSeatsPerRequest]]
    /\ capacity = [t \in TripIds |-> MaxSeatsPerRequest]
    /\ bookings = <<>>
    /\ now = 0
    /\ user_data = [u \in Users |-> NoBooking]
    /\ sweep = IdleSweep
    /\ cascade = IdleCascade
    /\ outbox = {}
    /\ update_queue = {}
    /\ bot_users = [u \in Users |-> NotBanned]
    /\ editing = [u \in Users |-> NotEditing]

QtyNext ==
    \/ (\E u \in Users, t \in TripIds, n \in QtySeats :
            CreateBooking(u, t, n)) /\ Frame
    \/ (\E u \in Users, b \in BookingIds : RejectBooking(u, b)) /\ Frame
    \/ (\E u \in Users, b \in BookingIds : CancelBookingAsk(u, b)) /\ Frame
    \/ (\E u \in Users, b \in BookingIds : ConfirmCancel(u, b)) /\ Frame
    \/ (\E u \in Users, w \in TextWords : TextReply(u, w)) /\ Frame

SpecQty == QtyInit /\ [][QtyNext]_vars

\* ------------------------------------------- the expiry job on its own
\* the bookings table the job finds: two PENDING requests of different
\* passengers, each either made at a known time or a legacy row whose
\* booking_time is NULL or text that does not parse (lines 82-84)
SweepTripIds == 1..2
LegacyTimes == {NoTime, 0, 1}

LegacyRow(t, u, bt) ==
    [trip_id |-> t, passenger_id |-> u, seats_booked |-> 1,
     booking_time |-> bt, status |-> PENDING]

SweepInit ==
    \E t1, t2 \in SweepTripIds, bt1, bt2 \in LegacyTimes :
        /\ bookings = <<LegacyRow(t1, 2, bt1), LegacyRow(t2, 3, bt2)>>
        /\ trips = [t \in SweepTripIds |->
                       [InitTrip(t) EXCEPT !.seats_available =
                           TripSeats - (IF t1 = t THEN 1 ELSE 0)
                                     - (IF t2 = t THEN 1 ELSE 0)]]
        /\ capacity = [t \in SweepTripIds |-> TripSeats]
        /\ now = 1
        /\ user_data = [u \in Users |-> NoBooking]
        /\ sweep = [IdleSweep EXCEPT
                       !.cache = [t \in SweepTripIds |-> NotLoaded]]
        /\ cascade = IdleCascade
        /\ outbox = {}
        /\ update_queue = {}
        /\ bot_users = [u \in Users |-> NotBanned]
        /\ editing = [u \in Users |-> NotEditing]

\* a database call of the job raises after an awaited notification (the
\* load of b.trip at line 107 or the commit of line 125): nothing in the
\* job catches it, the `with Session()` block of line 80 is left and the
\* session is rolled back
SweepFails ==
    /\ sweep.pc = "await"
    /\ sweep' = IdleSweep
    /\ outbox' = {}
    /\ UNCHANGED <<trips, capacity, bookings, now, user_data, cascade>>

SweepNext ==
    \/ Tick /\ Frame
    \/ SweepStart /\ Frame
    \/ SweepResume /\ Frame
    \/ SweepFails /\ Frame
    \/ (\E u \in Users, b \in BookingIds : ConfirmBooking(u, b)) /\ Frame
    \/ (\E u \in Users, b \in BookingIds : RejectBooking(u, b)) /\ Frame
    \/ (\E u \in Users, b \in BookingIds : ConfirmCancel(u, b)) /\ Frame

SpecSweep == SweepInit /\ [][SweepNext]_vars

\* ------------------------------------------------- the job under fairness
\* main.py lines 90-100: the job queue starts the expiry job every minute
\* for as long as the bot runs, a started job runs on whenever the send it
\* awaits returns or raises, and time passes.  The model's clock stops at
\* MaxTime, so requests are taken while the clock can still pass their
\* TTL.  The clock and the job are not held back by the seat bound.
LiveCreateBooking(u, t, n) ==
    /\ now + PENDING_BOOKING_TTL_MINUTES < MaxTime
    /\ CreateBooking(u, t, n)

LiveFrame == UNCHANGED <<update_queue, bot_users, editing>>

LiveNext ==
    \/ Tick /\ LiveFrame
    \/ (\E u \in Users, t \in ReqTripIds, n \in ReqSeats :
            LiveCreateBooking(u, t, n)) /\ Frame
    \/ (\E u \in Users, b \in BookingIds : ConfirmBooking(u, b)) /\ Frame
    \/ (\E u \in Users, b \in BookingIds : RejectBooking(u, b)) /\ Frame
    \/ (\E u \in Users, b \in BookingIds : CancelBookingAsk(u, b)) /\ Frame
    \/ (\E u \in Users : ClearDialog(u)) /\ Frame
    \/ (\E u \in Users, b \in BookingIds : ConfirmCancel(u, b)) /\ Frame
    \/ (\E u \in Users, w \in TextWords : TextReply(u, w)) /\ Frame
    \/ (\E u \in Users, b \in BookingIds : ExitTrip(u, b)) /\ Frame
    \/ (\E u \in Users, b \in BookingIds : ConfirmDriverCancel(u, b)) /\ Frame
    \/ (\E u \in Users, t \in ReqTripIds : CancelTrip(u, t)) /\ Frame
    \/ (\E sent \in BOOLEAN : CascadeStep(sent)) /\ Frame
    \/ SweepStart /\ LiveFrame
    \/ SweepResume /\ LiveFrame

SpecLive ==
    /\ Init
    /\ [][LiveNext]_vars
    /\ WF_vars(Tick /\ LiveFrame)
    /\ WF_vars(SweepStart /\ LiveFrame)
    /\ WF_vars(SweepResume /\ LiveFrame)

\* ------------------------- handlers.button_callback: edit_seats_pick_
\* line 4121: the seat counts the edit accepts
MaxSeatsPerTrip == 5
EditSeatCounts == ReqSeats \cup {MaxSeatsPerTrip + 1}

\* handlers._trip_has_confirmed_bookings
TripHasConfirmedBookings(t) ==
    \E i \in DOMAIN bookings :
        bookings[i].trip_id = t /\ bookings[i].status = CONFIRMED

EditSeats(u, t, n) ==
    /\ cascade.pc = "idle"
    /\ outbox' = {}
    /\ IF n < 1 \/ n > MaxSeatsPerTrip
       THEN UNCHANGED trips
       ELSE IF t \notin DOMAIN trips \/ ~trips[t].is_active
       THEN UNCHANGED trips
       ELSE IF trips[t].driver_id # u
       THEN UNCHANGED trips
       ELSE IF trips[t].date < now
       THEN UNCHANGED trips
       ELSE IF TripHasConfirmedBookings(t)
       THEN UNCHANGED trips
       ELSE IF DbLocked
       THEN UNCHANGED trips
       ELSE trips' = [trips EXCEPT ![t].seats_available = n]
    /\ UNCHANGED <<capacity, bookings, now, user_data, sweep, cascade>>

\* ---------------------------------------------- user_registry.ban_guard
\* _get_admin_ids: the ids listed in ADMIN_USER_ID
AdminIds == {3}

\* the query of line 161 returns, or raises
BanLookup == {"ok", "error"}

\* lines 166-172: the ban has a term and the term is over
BanLapsed(u) ==
    /\ bot_users[u].banned_until # NoTime
    /\ bot_users[u].banned_until <= now

\* the guard raises ApplicationHandlerStop (line 207): no other handler
\* sees the update
BanGuardStops(u, lookup) ==
    /\ u \notin AdminIds
    /\ lookup = "ok"
    /\ bot_users[u].is_banned
    /\ ~BanLapsed(u)

\* the table after the guard: a lapsed ban is lifted when it is met
BanGuardUsers(u, lookup) ==
    IF /\ u \notin AdminIds
       /\ lookup = "ok"
       /\ bot_users[u].is_banned
       /\ BanLapsed(u)
       /\ ~DbLocked
    THEN [bot_users EXCEPT ![u] = NotBanned]
    ELSE bot_users

\* an update of user u: the guard of group -10, then the handler the
\* update is routed to
ban_guard(u, lookup, Handler) ==
    IF BanGuardStops(u, lookup)
    THEN /\ outbox' = {}
         /\ UNCHANGED <<trips, capacity, bookings, now, user_data, sweep,
                        cascade, bot_users>>
    ELSE /\ Handler
         /\ bot_users' = BanGuardUsers(u, lookup)

\* admin_handlers.admin_text_router, mode "ban": the term is none or a
\* duration from the time of the ban
BanDurations == {1}
BanTerms == {NoTime} \cup {now + d : d \in BanDurations}
\* the users the administrator bans: a passenger and the administrator
BanTargets == {2, 3}

AdminBan(a, target, until) ==
    /\ a \in AdminIds
    /\ cascade.pc = "idle"
    /\ outbox' = {}
    /\ IF DbLocked
       THEN UNCHANGED bot_users
       ELSE bot_users' = [bot_users EXCEPT
                             ![target] = [is_banned |-> TRUE,
                                          banned_until |-> until]]
    /\ UNCHANGED <<trips, capacity, bookings, now, user_data, sweep, cascade>>

\* admin_handlers.admin_text_router, mode "unban"
AdminUnban(a, target) ==
    /\ a \in AdminIds
    /\ cascade.pc = "idle"
    /\ outbox' = {}
    /\ IF DbLocked
       THEN UNCHANGED bot_users
       ELSE bot_users' = [bot_users EXCEPT ![target] = NotBanned]
    /\ UNCHANGED <<trips, capacity, bookings, now, user_data, sweep, cascade>>

\* bounds of this specification: one row in the bookings table
BanBookings == 1
BanFrame == UNCHANGED <<update_queue, editing>> /\ Bounded' /\ Len(bookings') <= BanBookings

BanNext ==
    \/ Tick /\ Frame
    \/ (\E a \in Users, target \in BanTargets, until \in BanTerms :
            AdminBan(a, target, until)) /\ BanFrame
    \/ (\E a \in Users, target \in BanTargets :
            AdminUnban(a, target)) /\ BanFrame
    \/ (\E u \in Users, lookup \in BanLookup, t \in ReqTripIds, n \in ReqSeats :
            ban_guard(u, lookup, CreateBooking(u, t, n))) /\ BanFrame
    \/ (\E u \in Users, lookup \in BanLookup, b \in BookingIds :
            ban_guard(u, lookup, ConfirmBooking(u, b))) /\ BanFrame
    \/ (\E u \in Users, lookup \in BanLookup, b \in BookingIds :
            ban_guard(u, lookup, RejectBooking(u, b))) /\ BanFrame
    \/ (\E u \in Users, lookup \in BanLookup, b \in BookingIds :
            ban_guard(u, lookup, ConfirmCancel(u, b))) /\ BanFrame
    \/ (\E u \in Users, lookup \in BanLookup, b \in BookingIds :
            ban_guard(u, lookup, ConfirmDriverCancel(u, b))) /\ BanFrame
    \/ (\E u \in Users, lookup \in BanLookup, t \in ReqTripIds :
            ban_guard(u, lookup, CancelTrip(u, t))) /\ BanFrame
    \/ (\E u \in Users, lookup \in BanLookup, t \in ReqTripIds,
           n \in EditSeatCounts :
            ban_guard(u, lookup, EditSeats(u, t, n))) /\ BanFrame
    \/ (\E sent \in BOOLEAN : CascadeStep(sent)) /\ Frame

SpecBan == Init /\ [][BanNext]_vars

\* ------------------------------------------- editing the places of a trip
\* the places _creation_location_matches knows; any other text has no
\* exact match and is answered with the list of suggestions
EditPlaces == {"A", "B", "C"}
EditTexts == EditPlaces \cup {"x"}
Suggestions == <<"B", "C">>
PickIndexes == -1..Len(Suggestions)
DbLookup == {"ok", "error"}

\* _trip_has_confirmed_bookings: the count of CONFIRMED rows, and True when
\* the query raises
trip_has_confirmed_bookings(t, lookup) ==
    IF lookup = "error" THEN TRUE ELSE TripHasConfirmedBookings(t)

\* callback edit_departure_<trip_id>: opens the text dialog.  In 'editing'
\* the key editing_trip_id stands for the pair editing_trip_id and
\* editing_field; NoTrip means that one of them is absent.
EditDeparture(u, t, lookup) ==
    /\ cascade.pc = "idle"
    /\ outbox' = {}
    /\ IF t \notin DOMAIN trips \/ ~trips[t].is_active
       THEN UNCHANGED editing
       ELSE IF trips[t].driver_id # u
       THEN UNCHANGED editing
       ELSE IF trips[t].date < now
       THEN UNCHANGED editing
       ELSE IF trip_has_confirmed_bookings(t, lookup)
       THEN UNCHANGED editing
       ELSE editing' = [editing EXCEPT ![u].editing_trip_id = t]
    /\ UNCHANGED <<trips, capacity, bookings, now, user_data, sweep, cascade>>

\* handle_edit_input, field 'departure': a text message of a user who is in
\* the dialog
HandleEditInput(u, value, lookup) ==
    LET t == editing[u].editing_trip_id IN
    /\ cascade.pc = "idle"
    /\ outbox' = {}
    /\ IF t = NoTrip \/ t \notin DOMAIN trips
       THEN UNCHANGED <<trips, editing>>
       ELSE IF trips[t].driver_id # u
       THEN UNCHANGED <<trips, editing>>
       ELSE IF trips[t].date < now
       THEN /\ editing' = [editing EXCEPT ![u].editing_trip_id = NoTrip]
            /\ UNCHANGED trips
       ELSE IF trip_has_confirmed_bookings(t, lookup)
       THEN UNCHANGED <<trips, editing>>
       ELSE IF value \notin EditPlaces
       THEN /\ editing' = [editing EXCEPT
                              ![u].edit_suggestions = @ \cup {t}]
            /\ UNCHANGED trips
       ELSE IF value = trips[t].destination_point
       THEN UNCHANGED <<trips, editing>>
       ELSE IF DbLocked
       THEN UNCHANGED <<trips, editing>>
       ELSE /\ trips' = [trips EXCEPT ![t].departure_point = value]
            /\ editing' = [editing EXCEPT ![u].editing_trip_id = NoTrip]
    /\ UNCHANGED <<capacity, bookings, now, user_data, sweep, cascade>>

\* callback edit_pick_dep_<trip_id>_<idx>: a button of the suggestions list
EditPickDep(u, t, idx) ==
    /\ cascade.pc = "idle"
    /\ outbox' = {}
    /\ IF t \notin editing[u].edit_suggestions
          \/ idx < 0 \/ idx >= Len(Suggestions)
       THEN UNCHANGED <<trips, editing>>
       ELSE IF t \notin DOMAIN trips \/ ~trips[t].is_active
       THEN UNCHANGED <<trips, editing>>
       ELSE IF trips[t].driver_id # u
       THEN UNCHANGED <<trips, editing>>
       ELSE IF trips[t].date < now
       THEN UNCHANGED <<trips, editing>>
       ELSE IF Suggestions[idx + 1] = trips[t].destination_point
       THEN UNCHANGED <<trips, editing>>
       ELSE IF DbLocked
       THEN UNCHANGED <<trips, editing>>
       ELSE /\ trips' = [trips EXCEPT
                            ![t].departure_point = Suggestions[idx + 1]]
            /\ editing' = [editing EXCEPT
                              ![u].edit_suggestions = @ \ {t}]
    /\ UNCHANGED <<capacity, bookings, now, user_data, sweep, cascade>>

EditFrame == UNCHANGED <<update_queue, bot_users>> /\ Bounded'

EditNext ==
    \/ Tick /\ Frame
    \/ (\E u \in Users, t \in ReqTripIds, n \in ReqSeats :
            CreateBooking(u, t, n)) /\ Frame
    \/ (\E u \in Users, b \in BookingIds : ConfirmBooking(u, b)) /\ Frame
    \/ (\E u \in Users, b \in BookingIds :
            ConfirmDriverCancel(u, b)) /\ Frame
    \/ (\E u \in Users, t \in ReqTripIds, lookup \in DbLookup :
            EditDeparture(u, t, lookup)) /\ EditFrame
    \/ (\E u \in Users, value \in EditTexts, lookup \in DbLookup :
            HandleEditInput(u, value, lookup)) /\ EditFrame
    \/ (\E u \in Users, t \in ReqTripIds, idx \in PickIndexes :
            EditPickDep(u, t, idx)) /\ EditFrame

SpecEdit == Init /\ [][EditNext]_vars

\* ---------------------------------------------------- removal of old trips
\* the 7 days of cleanup_old_trips, on the scale of the clock
RetentionWindow == 1

\* the trips cleanup_old_trips selects: coalesce(end_date, date) < cutoff
OldTrips ==
    {t \in DOMAIN trips : trip_end_dt(trips[t]) < now - RetentionWindow}

\* handlers.cleanup_old_trips: deletes the bookings of every old trip, then
\* the trips, in one commit; an exception is logged and nothing is
\* written.  Rows are identified by their position: every row of the one
\* trip of Init belongs to it, so what is left is the empty table.
cleanup_old_trips ==
    /\ cascade.pc = "idle"
    /\ outbox' = {}
    /\ IF DbLocked
       THEN UNCHANGED <<trips, bookings>>
       ELSE /\ bookings' = SelectSeq(bookings,
                              LAMBDA bk : bk.trip_id \notin OldTrips)
            /\ trips' = [t \in DOMAIN trips \ OldTrips |-> trips[t]]
    /\ UNCHANGED <<capacity, now, user_data, sweep, cascade>>

\* admin_handlers.admin_cleanup_trips behind admin_only: retires every
\* active trip that has ended; bookings are not touched
admin_cleanup_trips(a) ==
    /\ cascade.pc = "idle"
    /\ outbox' = {}
    /\ IF a \notin AdminIds \/ DbLocked
       THEN UNCHANGED trips
       ELSE trips' = [t \in DOMAIN trips |->
                        IF trip_end_dt(trips[t]) < now /\ trips[t].is_active
                        THEN [trips[t] EXCEPT !.is_active = FALSE]
                        ELSE trips[t]]
    /\ UNCHANGED <<capacity, bookings, now, user_data, sweep, cascade>>

\* a trip that ends early enough to outlive the retention window
CleanupInit ==
    /\ trips = [t \in TripIds |->
                  [InitTrip(t) EXCEPT !.date = 1, !.end_date = 1]]
    /\ capacity = [t \in TripIds |-> TripSeats]
    /\ bookings = <<>>
    /\ now = 0
    /\ user_data = [u \in Users |-> NoBooking]
    /\ sweep = IdleSweep
    /\ cascade = IdleCascade
    /\ outbox = {}
    /\ update_queue = {}
    /\ bot_users = [u \in Users |-> NotBanned]
    /\ editing = [u \in Users |-> NotEditing]

CleanupNext ==
    \/ Tick /\ Frame
    \/ (\E u \in Users, t \in ReqTripIds, n \in ReqSeats :
            CreateBooking(u, t, n)) /\ Frame
    \/ (\E u \in Users, b \in BookingIds : ConfirmBooking(u, b)) /\ Frame
    \/ (\E u \in Users, b \in BookingIds : RejectBooking(u, b)) /\ Frame
    \/ (\E u \in Users, b \in BookingIds : ConfirmCancel(u, b)) /\ Frame
    \/ (\E u \in Users, t \in ReqTripIds : CancelTrip(u, t)) /\ Frame
    \/ (\E sent \in BOOLEAN : CascadeStep(sent)) /\ Frame
    \/ (\E a \in Users : admin_cleanup_trips(a)) /\ Frame
    \/ cleanup_old_trips /\ Frame

SpecCleanup == CleanupInit /\ [][CleanupNext]_vars

\* ================================================================= claims
\* seats of trip t held by bookings that are PENDING or CONFIRMED
HeldSeats(t) == ActiveSum(bookings, t)

\* C1: in every reachable state, for every trip, seats_available plus the
\* seats of its PENDING and CONFIRMED bookings equals the capacity the trip
\* was created with.
C1_SeatConservation ==
    \A t \in DOMAIN trips :
        trips[t].seats_available + HeldSeats(t) = capacity[t]

\* C2: in every reachable state, for every trip,
\* 0 <= seats_available <= the capacity the trip was created with.
C2_SeatsWithinCapacity ==
    \A t \in DOMAIN trips :
        /\ 0 <= trips[t].seats_available
        /\ trips[t].seats_available <= capacity[t]

\* the transitions of the table, as <<from, to>>
TableTransitions ==
    {<<PENDING, CONFIRMED>>, <<PENDING, REJECTED>>, <<PENDING, EXPIRED>>,
     <<PENDING, CANCELLED>>, <<CONFIRMED, CANCELLED>>}

\* C3: every status change of a booking is a transition of the table and
\* every booking is created PENDING; so a REJECTED, CANCELLED or EXPIRED
\* booking never changes status again.
C3_OnlyTableTransitions ==
    [][/\ \A b \in DOMAIN bookings :
             \/ bookings'[b].status = bookings[b].status
             \/ <<bookings[b].status, bookings'[b].status>> \in TableTransitions
       /\ \A b \in DOMAIN bookings' \ DOMAIN bookings :
             bookings'[b].status = PENDING]_vars

\* passenger u holds a PENDING or CONFIRMED booking of trip t
HoldsActive(u, t) ==
    \E i \in DOMAIN bookings :
        /\ bookings[i].trip_id = t
        /\ bookings[i].passenger_id = u
        /\ bookings[i].status \in ActiveStatuses

AtMostOneActive ==
    \A i, j \in DOMAIN bookings :
        (/\ i # j
         /\ bookings[i].trip_id = bookings[j].trip_id
         /\ bookings[i].passenger_id = bookings[j].passenger_id
         /\ bookings[i].status \in ActiveStatuses)
        => bookings[j].status \notin ActiveStatuses

\* C4: in every reachable state there is at most one PENDING or CONFIRMED
\* booking per (trip, passenger); and a CreateBooking by a passenger who
\* holds such a booking of the trip changes neither table (no step that
\* changes a table is such a CreateBooking).
C4_OneActiveBookingPerPassenger ==
    /\ [](AtMostOneActive)
    /\ [][\/ UNCHANGED <<trips, bookings>>
          \/ \A u \in Users, t \in ReqTripIds, n \in ReqSeats :
                HoldsActive(u, t) => ~CreateBooking(u, t, n)]_vars

\* a duplicate request met the duplicate rule and left the tables alone
C4_Witness ==
    \E u \in Users, t \in DOMAIN trips :
        /\ HoldsActive(u, t)
        /\ BookingCheck(u, t, 1) = "duplicate"
        /\ outbox = {}
        /\ Len(bookings) = 1

\* ---- C5, under SpecRace
\* seats of the race trip that were taken before the race
RaceHeld ==
    IF Len(bookings) > 0 /\ bookings[1].status = CONFIRMED THEN 1 ELSE 0

\* the K of the race: the seats the trip had left when the requests came
RaceK == capacity[RaceTrip] - RaceHeld

\* the bookings the race has created
RaceWon == {i \in DOMAIN bookings : bookings[i].status = PENDING}

RaceWinners == {bookings[i].passenger_id : i \in RaceWon}

\* C5: K + 1 distinct passengers each ask for one seat of a trip with
\* exactly K seats left; in whatever order the requests are handled, once
\* all are handled exactly K have a PENDING one-seat booking, exactly one
\* has none and is refused for want of seats, and seats_available = 0.
C5_LastSeatRace ==
    /\ Cardinality(RaceWon) + trips[RaceTrip].seats_available = RaceK
    /\ update_queue = {} =>
          /\ Cardinality(RaceWon) = RaceK
          /\ Cardinality(RaceWinners) = RaceK
          /\ RaceWinners \subseteq RaceUsers(RaceK)
          /\ \A i \in RaceWon : bookings[i].seats_booked = 1
          /\ Cardinality(RaceUsers(RaceK) \ RaceWinners) = 1
          /\ \A u \in RaceUsers(RaceK) \ RaceWinners :
                BookingCheck(u, RaceTrip, 1) = "unavailable"
          /\ trips[RaceTrip].seats_available = 0

\* the largest race is over
C5_Witness ==
    /\ update_queue = {}
    /\ RaceK = MaxBookings + 1
    /\ RaceHeld = 1
    /\ Cardinality(RaceWon) = RaceK

\* ---- C6
\* seats of trip t booked by the bookings of the set S
SeatsOf(S, t) ==
    LET RECURSIVE Sum(_)
        Sum(i) == IF i = 0 THEN 0
                  ELSE Sum(i - 1) +
                       (IF i \in S /\ bookings[i].trip_id = t
                        THEN bookings[i].seats_booked ELSE 0)
    IN Sum(Len(bookings))

\* the step in which the expiry job commits after an awaited notification
SweepCommits == sweep.pc = "await" /\ sweep'.pc = "idle"

\* C6: no seat update is lost when the expiry job is interleaved with a
\* CreateBooking or a cancel: when the job commits the expiry of bookings
\* that are still PENDING, every trip's seats_available becomes the value
\* the table holds at that moment plus the seats the job releases.
C6_SweepLosesNoUpdate ==
    [][(SweepCommits /\ \A b \in sweep.expired : bookings[b].status = PENDING)
       => \A t \in DOMAIN trips :
             trips'[t].seats_available =
                 trips[t].seats_available + SeatsOf(sweep.expired, t)]_vars

\* ---- C7
\* C7: the expiry job does not touch a booking the driver has confirmed or
\* rejected: its commit leaves the status of a CONFIRMED or REJECTED
\* booking as it is.
C7_SweepKeepsDriverDecision ==
    [][SweepCommits
       => \A b \in DOMAIN bookings :
             bookings[b].status \in {CONFIRMED, REJECTED}
             => bookings'[b].status = bookings[b].status]_vars

\* ---- C8
\* more than the TTL has passed since the booking was made
TtlElapsed(bk) == now - bk.booking_time > PENDING_BOOKING_TTL_MINUTES

\* C8: a Confirm that commits on a PENDING booking whose TTL has elapsed
\* sets EXPIRED, returns the booking's seats and sends the passenger the
\* expired notification and nothing else; on a PENDING booking whose TTL
\* has not elapsed it sets CONFIRMED.
C8_ConfirmRechecksTtl ==
    [][\A b \in DOMAIN bookings, u \in Users :
          (bookings[b].status = PENDING /\ ~DbLocked /\ ConfirmBooking(u, b))
          => IF TtlElapsed(bookings[b])
             THEN /\ bookings'[b].status = EXPIRED
                  /\ trips' = AddSeats(trips, bookings[b].trip_id,
                                       bookings[b].seats_booked)
                  /\ outbox' = {Note("expired", bookings[b].passenger_id, b)}
             ELSE /\ bookings'[b].status = CONFIRMED
                  /\ \A m \in outbox' : m.kind # "expired"]_vars

\* a Confirm has just expired a booking: the expiry job never leaves an
\* EXPIRED booking together with its notification
C8_Witness ==
    \E b \in DOMAIN bookings :
        /\ bookings[b].status = EXPIRED
        /\ sweep.pc = "idle"
        /\ outbox = {Note("expired", bookings[b].passenger_id, b)}

\* ---- C9
\* C9: no step takes a PENDING booking whose TTL has elapsed to REJECTED.
C9_RejectRechecksTtl ==
    [][\A b \in DOMAIN bookings :
          (bookings[b].status = PENDING /\ TtlElapsed(bookings[b]))
          => bookings'[b].status # REJECTED]_vars

\* ---- C10
\* C10: a step that adds bookings adds exactly one row, PENDING, with the
\* passenger, trip and seat count of the request, leaves the other rows
\* alone and takes exactly that many seats from that trip in the same
\* step; a Confirm that commits on a PENDING booking whose TTL has not
\* elapsed sets CONFIRMED and changes no seat count.
C10_CreateThenConfirm ==
    [][/\ Len(bookings') # Len(bookings) =>
             LET b == Len(bookings') IN
             /\ b = Len(bookings) + 1
             /\ SubSeq(bookings', 1, Len(bookings)) = bookings
             /\ bookings'[b].status = PENDING
             /\ bookings'[b].seats_booked >= 1
             /\ trips' = AddSeats(trips, bookings'[b].trip_id,
                                  0 - bookings'[b].seats_booked)
             /\ \A u \in Users, t \in ReqTripIds, n \in ReqSeats :
                   CreateBooking(u, t, n) =>
                       /\ bookings'[b].passenger_id = u
                       /\ bookings'[b].trip_id = t
                       /\ bookings'[b].seats_booked = n
       /\ \A b \in DOMAIN bookings, u \in Users :
             (/\ bookings[b].status = PENDING
              /\ ~TtlElapsed(bookings[b])
              /\ ~DbLocked
              /\ ConfirmBooking(u, b))
             => /\ bookings'[b].status = CONFIRMED
                /\ UNCHANGED trips]_vars

\* a booking of every seat of a trip was made and then confirmed
C10_Witness ==
    \E b \in DOMAIN bookings :
        /\ bookings[b].status = CONFIRMED
        /\ bookings[b].seats_booked = TripSeats
        /\ trips[bookings[b].trip_id].seats_available = 0
        /\ outbox = {Note("confirmed", bookings[b].passenger_id, b)}

\* ---- C11
\* the trip of a request does not exist, is not active, has started, or
\* has fewer seats left than the request asks for
CreateRefused(t, n) ==
    \/ t \notin DOMAIN trips
    \/ ~trips[t].is_active
    \/ trips[t].date < now
    \/ trips[t].seats_available < n

\* C11: a CreateBooking against a trip that does not exist, is inactive,
\* has already started or has fewer seats than requested creates no
\* booking and leaves every seat count and every booking as it was (no
\* step that changes a table is such a CreateBooking).
C11_RefusedCreateChangesNothing ==
    [][\/ UNCHANGED <<trips, bookings>>
       \/ \A u \in Users, t \in ReqTripIds, n \in ReqSeats :
             CreateRefused(t, n) => ~CreateBooking(u, t, n)]_vars

\* a request for a trip that has started, with seats left, after an
\* earlier booking: the request was refused
C11_Witness ==
    /\ trips[1].is_active
    /\ trips[1].date < now
    /\ trips[1].seats_available > 0
    /\ Len(bookings) = 1
    /\ BookingCheck(3, 1, 1) = "past"
    /\ outbox = {}

\* ---- C13
\* C13: no booking ever has the driver of its trip as passenger, and a
\* CreateBooking by the trip's driver changes neither table.
C13_NoOwnTripBooking ==
    /\ [](\A b \in DOMAIN bookings :
             bookings[b].passenger_id # trips[bookings[b].trip_id].driver_id)
    /\ [][\/ UNCHANGED <<trips, bookings>>
          \/ \A u \in Users, t \in DOMAIN trips, n \in ReqSeats :
                trips[t].driver_id = u => ~CreateBooking(u, t, n)]_vars

\* the driver's request met the own-trip rule: the trip is bookable for
\* anyone else
C13_Witness ==
    /\ BookingCheck(1, 1, 1) = "own_trip"
    /\ BookingCheck(3, 1, 1) = "ok"
    /\ Len(bookings) = 1
    /\ outbox = {}

\* ---- C12, under SpecQty
\* C12: every booking that is created has 1 <= seats_booked <=
\* MaxSeatsPerRequest and seats_booked <= the trip's seats_available at
\* that moment; a CreateBooking with a count outside these bounds changes
\* neither table.
C12_SeatsBookedWithinBounds ==
    [][/\ Len(bookings') > Len(bookings) =>
             LET r == bookings'[Len(bookings')] IN
             /\ r.seats_booked >= 1
             /\ r.seats_booked <= MaxSeatsPerRequest
             /\ r.seats_booked <= trips[r.trip_id].seats_available
       /\ \/ UNCHANGED <<trips, bookings>>
          \/ \A u \in Users, t \in DOMAIN trips, n \in QtySeats :
                (n < 1 \/ n > MaxSeatsPerRequest
                       \/ n > trips[t].seats_available)
                => ~CreateBooking(u, t, n)]_vars

\* ---- C14
\* the trip and the driver of booking b
TripOf(b) == bookings[b].trip_id
DriverOf(b) == trips[TripOf(b)].driver_id

\* the three ways a passenger commits a cancellation of booking b
PassengerCancels(u, b) ==
    \/ ConfirmCancel(u, b)
    \/ ExitTrip(u, b)
    \/ (user_data[u] = b /\ TextReply(u, "yes"))

\* C14: Confirm, Reject, CancelByDriver and CancelTrip change a table
\* only when the actor is the trip's driver, and a passenger cancellation
\* only when the actor is the booking's passenger (no step that changes a
\* table is one of these operations invoked by somebody else).
C14_OnlyOwnersMutate ==
    [][\/ UNCHANGED <<trips, bookings>>
       \/ /\ \A u \in Users, b \in DOMAIN bookings :
                /\ u # DriverOf(b) =>
                      /\ ~ConfirmBooking(u, b)
                      /\ ~RejectBooking(u, b)
                      /\ ~ConfirmDriverCancel(u, b)
                /\ u # bookings[b].passenger_id => ~PassengerCancels(u, b)
          /\ \A u \in Users, t \in DOMAIN trips :
                u # trips[t].driver_id => ~CancelTrip(u, t)]_vars

\* ---- C15
\* C15: a Reject that can commit, on a PENDING booking of N seats whose
\* TTL has not elapsed, sets that booking REJECTED and adds exactly N to
\* the trip's seats_available in the same step, and changes nothing else;
\* on a booking in any other status it changes neither table (no step
\* that changes a table is a Reject of a booking that is not PENDING).
C15_RejectReleasesSeats ==
    [][\/ UNCHANGED <<trips, bookings>>
       \/ \A b \in DOMAIN bookings, u \in Users :
             (~DbLocked /\ RejectBooking(u, b)) =>
                /\ bookings[b].status = PENDING
                /\ ~TtlElapsed(bookings[b]) =>
                      /\ bookings' = SetStatus(bookings, b, REJECTED)
                      /\ trips' = AddSeats(trips, TripOf(b),
                                           bookings[b].seats_booked)]_vars

\* a Reject of a booking of every seat of a trip has just been committed
C15_Witness ==
    \E b \in DOMAIN bookings :
        /\ bookings[b].status = REJECTED
        /\ bookings[b].seats_booked = TripSeats
        /\ trips[TripOf(b)].seats_available = capacity[TripOf(b)]
        /\ outbox = {Note("rejected", bookings[b].passenger_id, b)}

\* ---- C16
\* C16: a passenger cancellation that can commit, through confirm_cancel_,
\* the text reply or exit_trip_, sets a PENDING or CONFIRMED booking of N
\* seats CANCELLED and adds exactly N to seats_available; on a REJECTED,
\* CANCELLED or EXPIRED booking it changes neither table.
C16_PassengerCancelEffect ==
    [][\A b \in DOMAIN bookings, u \in Users :
          (/\ u = bookings[b].passenger_id
           /\ ~DbLocked
           /\ PassengerCancels(u, b)) =>
             IF bookings[b].status \in ActiveStatuses
             THEN /\ bookings' = SetStatus(bookings, b, CANCELLED)
                  /\ trips' = AddSeats(trips, TripOf(b),
                                       bookings[b].seats_booked)
             ELSE UNCHANGED <<trips, bookings>>]_vars

\* ---- C17
\* C17: a passenger's or driver's confirmation of a cancellation after
\* the trip's end time has passed changes neither table.
C17_NoCancelAfterTripEnd ==
    [][\/ UNCHANGED <<trips, bookings>>
       \/ \A b \in DOMAIN bookings, u \in Users :
             trip_end_dt(trips[TripOf(b)]) < now =>
                /\ ~ConfirmCancel(u, b)
                /\ ~(user_data[u] = b /\ TextReply(u, "yes"))
                /\ ~ConfirmDriverCancel(u, b)]_vars

\* ---- C18
\* C18: a CancelByDriver that can commit, by the trip's driver, sets a
\* CONFIRMED booking of N seats CANCELLED and adds exactly N to
\* seats_available; on a REJECTED, CANCELLED or EXPIRED booking it changes
\* neither table and sends nothing (no step that changes a table or
\* sends a notification is a CancelByDriver of such a booking).
C18_DriverCancelEffect ==
    [][/\ \/ UNCHANGED <<trips, bookings>>
          \/ \A b \in DOMAIN bookings, u \in Users :
                (/\ u = DriverOf(b)
                 /\ ~DbLocked
                 /\ ConfirmDriverCancel(u, b)) =>
                   /\ bookings[b].status \notin TerminalStatuses
                   /\ bookings[b].status = CONFIRMED =>
                         /\ bookings' = SetStatus(bookings, b, CANCELLED)
                         /\ trips' = AddSeats(trips, TripOf(b),
                                              bookings[b].seats_booked)
       /\ \/ outbox' = {}
          \/ \A b \in DOMAIN bookings, u \in Users :
                (u = DriverOf(b) /\ bookings[b].status \in TerminalStatuses)
                => ~ConfirmDriverCancel(u, b)]_vars

\* the driver has just cancelled a booking that was made at least an
\* instant earlier, and the seats are all back
C18_Witness ==
    \E b \in DOMAIN bookings :
        /\ bookings[b].status = CANCELLED
        /\ bookings[b].booking_time < now
        /\ trips[TripOf(b)].seats_available = capacity[TripOf(b)]
        /\ outbox = {Note("rejected", bookings[b].passenger_id, b)}

\* ---- C19
\* C19: once CancelTrip has run to its end the trip is inactive and none
\* of its bookings is PENDING or CONFIRMED.
C19_CancelTripCancelsAll ==
    \A t \in DOMAIN trips :
        (~trips[t].is_active /\ cascade.pc = "idle") =>
            \A b \in DOMAIN bookings :
                bookings[b].trip_id = t =>
                    bookings[b].status \notin ActiveStatuses

\* ---- C20
\* C20: the step of CancelTrip that sets a PENDING or CONFIRMED booking
\* CANCELLED adds that booking's seats_booked to the trip's
\* seats_available in the same step.
C20_CancelTripReleasesSeats ==
    [][\A b \in DOMAIN bookings :
          (/\ cascade.pc = "notify"
           /\ bookings[b].status \in ActiveStatuses
           /\ bookings'[b].status = CANCELLED) =>
             trips'[TripOf(b)].seats_available =
                 trips[TripOf(b)].seats_available + bookings[b].seats_booked]_vars

\* ---- C21
\* C21: a CancelTrip of a trip that is already cancelled changes neither
\* table, starts no round of passenger notifications and sends nothing
\* (no step that changes the trip, a booking or the cascade, or that sends
\* a notification, is a CancelTrip of an inactive trip).
C21_CancelTripIdempotent ==
    [][\/ UNCHANGED <<trips, bookings, cascade>> /\ outbox' = {}
       \/ \A u \in Users, t \in DOMAIN trips :
             ~trips[t].is_active => ~CancelTrip(u, t)]_vars

\* a cancelled trip whose cascade is over and has left a booking active:
\* a second CancelTrip finds a passenger it could notify again
C21_Witness ==
    \E t \in DOMAIN trips :
        /\ ~trips[t].is_active
        /\ cascade.pc = "idle"
        /\ outbox = {}
        /\ ActiveBookingsOf(t) # <<>>

\* ---- C22
\* C22: a turn of the CancelTrip cascade that can commit leaves the same
\* bookings whether its send succeeds or raises: the booking at the head
\* of the queue is CANCELLED after the turn.
C22_SendFailureKeepsOutcome ==
    [][(cascade.pc = "notify" /\ cascade' # cascade /\ ~DbLocked)
       => bookings' = SetStatus(bookings, Head(cascade.queue), CANCELLED)]_vars

\* ---- C23
\* the statuses a notification of each kind tells its receiver about
NotifiedStatuses(kind) ==
    CASE kind = "expired" -> {EXPIRED}
      [] kind = "confirmed" -> {CONFIRMED}
      [] kind = "rejected" -> {REJECTED, CANCELLED}
      [] kind = "booking_cancelled" -> {CANCELLED}
      [] kind = "trip_cancelled" -> {CANCELLED}
      [] OTHER -> BookingStatus

\* C23: whenever a notification has been handed to the bot, the status
\* change it tells about is already in the bookings table.
C23_NotifyAfterCommit ==
    \A m \in outbox :
        /\ m.booking \in DOMAIN bookings
        /\ bookings[m.booking].status \in NotifiedStatuses(m.kind)

\* ---- C24
\* the cutoff of the expiry job that ends in this step: its start time
\* less the TTL
SweepCutoff ==
    IF sweep.pc = "idle" THEN now - PENDING_BOOKING_TTL_MINUTES
    ELSE sweep.cutoff

\* the step in which a run of the expiry job ends
SweepEnds ==
    \/ sweep.pc = "await" /\ sweep'.pc = "idle"
    \/ sweep.pc = "idle" /\ sweep'.pc = "idle" /\ SweepStart

\* the PENDING bookings made at least the TTL before the job started
DueBookings ==
    {b \in DOMAIN bookings :
        /\ bookings[b].status = PENDING
        /\ bookings[b].booking_time # NoTime
        /\ bookings[b].booking_time <= SweepCutoff}

\* C24: when a run of the expiry job ends, every booking that is PENDING
\* and was made at least the TTL before the run started (exactly the TTL
\* included) is EXPIRED, its seats are added to its trip's
\* seats_available, and every other PENDING booking is as it was.
C24_SweepExpiresDue ==
    [][SweepEnds =>
          /\ \A b \in DOMAIN bookings :
                bookings[b].status = PENDING =>
                    IF b \in DueBookings
                    THEN bookings'[b] = [bookings[b] EXCEPT !.status = EXPIRED]
                    ELSE bookings'[b] = bookings[b]
          /\ \A t \in DOMAIN trips :
                trips'[t].seats_available =
                    trips[t].seats_available + SeatsOf(DueBookings, t)]_vars

\* ---- C25, under SpecSweep
\* C25: the commit of the expiry job changes no booking other than those
\* that are PENDING with a booking_time at least the TTL before the job
\* started, and no trip other than the trips of those bookings; a booking
\* that is CONFIRMED, REJECTED, CANCELLED or EXPIRED, or whose
\* booking_time is missing, is left as it is.
C25_SweepFrame ==
    [][SweepCommits =>
          /\ \A b \in DOMAIN bookings \ DueBookings :
                bookings'[b] = bookings[b]
          /\ \A t \in DOMAIN trips :
                SeatsOf(DueBookings, t) = 0 => trips'[t] = trips[t]]_vars

\* ---- C26, under SpecSweep
\* the bookings a run of the job has marked or still has to mark
SweepWork ==
    sweep.expired \cup
    {sweep.queue[i] : i \in {j \in 1..Len(sweep.queue) :
        SweepExpires(bookings[sweep.queue[j]], sweep.cutoff)}}

\* C26: when a database call of the expiry job fails on one booking, every
\* other booking the run has marked or still had to mark is EXPIRED in the
\* table once the run is over.
C26_SweepCommitsPerBooking ==
    [][SweepFails =>
          \E f \in SweepWork :
              \A b \in SweepWork \ {f} : bookings'[b].status = EXPIRED]_vars

\* ---- C27, under SpecLive
\* C27: with the expiry job started again and again and time passing,
\* every booking that is PENDING is later not PENDING.
C27_PendingEventuallyLeaves ==
    \A b \in BookingIds :
        (b \in DOMAIN bookings /\ bookings[b].status = PENDING)
        ~> (b \in DOMAIN bookings /\ bookings[b].status # PENDING)

\* the job has just committed the expiry of a booking nobody acted on
C27_Witness ==
    \E b \in DOMAIN bookings :
        /\ bookings[b].status = EXPIRED
        /\ now - bookings[b].booking_time > PENDING_BOOKING_TTL_MINUTES
        /\ trips[TripOf(b)].seats_available = capacity[TripOf(b)]
        /\ sweep.pc = "idle"
        /\ outbox = {}

\* ---- C28
\* C28: a step that makes a booking EXPIRED is the commit of the expiry
\* job or a Confirm of that booking, and the booking was PENDING with its
\* TTL elapsed.
C28_ExpiredOnlyFromPending ==
    [][\A b \in DOMAIN bookings :
          (bookings'[b].status = EXPIRED /\ bookings[b].status # EXPIRED)
          => /\ bookings[b].status = PENDING
             /\ TtlElapsed(bookings[b])
             /\ \/ SweepCommits
                \/ \E u \in Users : ConfirmBooking(u, b)]_vars

\* ---- C29, under SpecBan
\* user u is banned and the ban has not lapsed
Banned(u) ==
    /\ bot_users[u].is_banned
    /\ bot_users[u].banned_until = NoTime \/ bot_users[u].banned_until > now

\* an update of user u that asks for a reservation operation
UpdateFrom(u) ==
    \E lookup \in BanLookup :
        \/ \E t \in ReqTripIds, n \in ReqSeats :
               ban_guard(u, lookup, CreateBooking(u, t, n))
        \/ \E t \in ReqTripIds, n \in EditSeatCounts :
               ban_guard(u, lookup, EditSeats(u, t, n))
        \/ \E t \in ReqTripIds : ban_guard(u, lookup, CancelTrip(u, t))
        \/ \E b \in BookingIds :
               \/ ban_guard(u, lookup, ConfirmBooking(u, b))
               \/ ban_guard(u, lookup, RejectBooking(u, b))
               \/ ban_guard(u, lookup, ConfirmCancel(u, b))
               \/ ban_guard(u, lookup, ConfirmDriverCancel(u, b))

\* C29: no update of a user who is banned changes the trips or the
\* bookings table, whether or not the user is an administrator and
\* whether or not the ban lookup succeeds.
C29_BannedActorChangesNothing ==
    [][\/ UNCHANGED <<trips, bookings>>
       \/ \A u \in Users : Banned(u) => ~UpdateFrom(u)]_vars

\* ---- C30, under SpecBan
\* seats of trip t that are free or held: the capacity the table implies
TotalSeats(t) == trips[t].seats_available + HeldSeats(t)

\* C30: no step changes, for any trip, seats_available plus the seats of
\* its PENDING and CONFIRMED bookings.
C30_CapacityImmutable ==
    [][\A t \in DOMAIN trips : TotalSeats(t)' = TotalSeats(t)]_vars

\* ---- C31, under SpecEdit
\* C31: no step changes the departure point of a trip that has a CONFIRMED
\* booking at that moment.
C31_NoEditWithConfirmed ==
    [][\A t \in DOMAIN trips :
          trips'[t].departure_point # trips[t].departure_point
              => ~TripHasConfirmedBookings(t)]_vars

\* ---- C32, under SpecCleanup
\* the bookings of trip t that are PENDING or CONFIRMED
ActiveRowsOf(t) ==
    {b \in DOMAIN bookings :
        bookings[b].trip_id = t /\ bookings[b].status \in ActiveStatuses}

\* C32: a step removes a trip only when the trip ended more than the
\* retention window ago, is inactive and has no PENDING or CONFIRMED
\* booking.
C32_DeleteOnlyRetired ==
    [][\A t \in DOMAIN trips :
          t \notin DOMAIN trips'
              => /\ trip_end_dt(trips[t]) < now - RetentionWindow
                 /\ ~trips[t].is_active
                 /\ ActiveRowsOf(t) = {}]_vars

\* ---- C33, under SpecSweep
\* C33: when a database call of the expiry job fails on a booking of one
\* trip, every other trip is as the run would have left it: its bookings
\* the run has marked are EXPIRED and its seats_available is the value the
\* run computed for it.
C33_TripsIndependent ==
    [][SweepFails =>
          \E f \in DOMAIN trips :
              \A t \in DOMAIN trips \ {f} :
                  /\ \A b \in sweep.expired :
                        bookings[b].trip_id = t
                            => bookings'[b].status = EXPIRED
                  /\ sweep.cache[t] # NotLoaded
                        => trips'[t].seats_available = sweep.cache[t]]_vars

\* ---- C34, under Spec
\* C34: seats are added to a trip's seats_available only by a step in
\* which a PENDING or CONFIRMED booking of that trip becomes terminal, so
\* the seats of a booking are returned at most once.
C34_SeatsReturnedOnce ==
    [][\/ UNCHANGED trips
       \/ \A t \in DOMAIN trips :
             trips'[t].seats_available > trips[t].seats_available
                 => \E b \in DOMAIN bookings :
                       /\ bookings[b].trip_id = t
                       /\ bookings[b].status \in ActiveStatuses
                       /\ bookings'[b].status \in TerminalStatuses]_vars

\* ---- C35, under Spec
\* exit_trip_ by the booking's passenger on an active trip before its
\* departure
ExitBeforeDeparture(u, b) ==
    /\ b \in DOMAIN bookings
    /\ bookings[b].passenger_id = u
    /\ trips[TripOf(b)].is_active
    /\ trips[TripOf(b)].date > now
    /\ ~DbLocked
    /\ ExitTrip(u, b)

\* C35: every step exit_trip_ makes on an active trip before its departure
\* is the step confirm_cancel_ makes for the same passenger and booking:
\* same booking status, same seats_available, same notification.
C35_ExitLikeConfirmCancel ==
    [][\/ UNCHANGED db
       \/ \A u \in Users, b \in BookingIds :
             ExitBeforeDeparture(u, b) => ConfirmCancel(u, b)]_vars

\* ---- C36, under Spec
\* C36: exit_trip_ by the booking's passenger, when the trip is inactive
\* or its departure time is now or earlier, sets the booking CANCELLED,
\* leaves every seats_available as it is and hands no notification to the
\* bot.
C36_LateExitOnlyCancels ==
    [][\/ UNCHANGED db /\ outbox' = {}
       \/ \A u \in Users, b \in BookingIds :
             (/\ b \in DOMAIN bookings
              /\ bookings[b].passenger_id = u
              /\ ~DbLocked
              /\ ~trips[TripOf(b)].is_active \/ trips[TripOf(b)].date <= now
              /\ ExitTrip(u, b)) =>
                /\ bookings' = SetStatus(bookings, b, CANCELLED)
                /\ UNCHANGED trips
                /\ outbox' = {}]_vars

\* a passenger has left an active trip at or after its departure: the
\* booking is CANCELLED, its seats are still missing from seats_available
\* and nobody was notified
C36_Witness ==
    \E b \in DOMAIN bookings :
        /\ bookings[b].status = CANCELLED
        /\ trips[TripOf(b)].is_active
        /\ trips[TripOf(b)].date <= now
        /\ trips[TripOf(b)].seats_available + HeldSeats(TripOf(b))
               = capacity[TripOf(b)] - bookings[b].seats_booked
        /\ outbox = {}

\* ---- C37, under Spec
\* C37: no step creates a booking on a trip that is inactive, and no step
\* makes a booking CONFIRMED while its trip is inactive.
C37_NoConfirmOnInactiveTrip ==
    [][\/ UNCHANGED bookings
       \/ \A b \in DOMAIN bookings' :
             (\/ b \notin DOMAIN bookings
              \/ /\ bookings'[b].status = CONFIRMED
                 /\ bookings[b].status # CONFIRMED)
             => trips[bookings'[b].trip_id].is_active]_vars

\* ---- C38, under Spec
\* C38: Confirm on a booking that is CONFIRMED, REJECTED or CANCELLED
\* changes no booking and no trip and hands no notification to the bot.
C38_ConfirmIdempotent ==
    [][\/ UNCHANGED db /\ outbox' = {}
       \/ \A u \in Users, b \in BookingIds :
             (/\ b \in DOMAIN bookings
              /\ bookings[b].status \in {CONFIRMED, REJECTED, CANCELLED}
              /\ ConfirmBooking(u, b)) =>
                /\ UNCHANGED db
                /\ outbox' = {}]_vars

\* a booking confirmed an instant ago is still CONFIRMED with its seat
\* held, and the last step sent nothing
C38_Witness ==
    \E b \in DOMAIN bookings :
        /\ bookings[b].status = CONFIRMED
        /\ bookings[b].booking_time < now
        /\ trips[TripOf(b)].seats_available + HeldSeats(TripOf(b))
               = capacity[TripOf(b)]
        /\ outbox = {}

====
